---- MODULE Spec2Model ----
(***************************************************************************)
(* ai-scheduler: the two schedule handlers (src/app.py POST /schedule and   *)
(* src/main.py POST /tools/schedule_meeting) as one state machine.          *)
(*                                                                          *)
(* Time is counted in minutes; minute 0 is Monday 2025-03-03 00:00, so the  *)
(* modelled days hold the US daylight-saving change of Sunday 2025-03-09    *)
(* and the Monday 2025-03-10 of the documented round-trip example.          *)
(* A datetime is [aware, wall, off]: its wall-clock reading, and for an     *)
(* aware one its UTC offset; the instant it names is wall - off.            *)
(***************************************************************************)
EXTENDS Integers, Sequences, FiniteSets, TLC

(* ------------------------------ bounds -------------------------------- *)

\* Days 0..MaxDay of wall-clock readings a request's time text may name.
MaxDay == 7

(* ------------------------- calendar arithmetic ------------------------ *)

MinutesPerHour == 60

MinutesPerDay == 1440

\* datetime.weekday(): 0 = Monday ... 6 = Sunday (minute 0 is a Monday).
weekday(wall) == (wall \div MinutesPerDay) % 7

\* datetime.hour
hour(wall) == (wall % MinutesPerDay) \div MinutesPerHour

(* --------------------------- pytz time zones -------------------------- *)

\* The zone names the zone database knows, among those requests carry.
all_timezones == {"UTC", "Europe/Amsterdam", "America/New_York", "Asia/Tokyo"}

\* A zone name the database does not know.
UnknownZone == "Mars/Phobos"

\* America/New_York goes from EST to EDT on Sunday 2025-03-09 at 07:00 UTC.
NewYorkDstStartUtc == 9060

\* The UTC offset, in minutes, in force in `zone` at the instant `utc`.
utcoffset(zone, utc) ==
    CASE zone = "UTC" -> 0
      [] zone = "Europe/Amsterdam" -> 60
      [] zone = "Asia/Tokyo" -> 540
      [] zone = "America/New_York" ->
            IF utc < NewYorkDstStartUtc THEN -300 ELSE -240

\* Every offset `zone` has in the modelled days.
ZoneOffsets(zone) ==
    IF zone = "America/New_York" THEN {-300, -240} ELSE {utcoffset(zone, 0)}

\* The zone's standard-time (is_dst = False) offset.
StandardOffset(zone) ==
    CHOOSE o \in ZoneOffsets(zone) : \A p \in ZoneOffsets(zone) : o <= p

\* The offsets under which the wall-clock reading `wall` really occurs in `zone`.
PossibleOffsets(zone, wall) ==
    {o \in ZoneOffsets(zone) : utcoffset(zone, wall - o) = o}

\* tz.localize(naive), is_dst = False: the one offset under which the reading
\* occurs; the standard-time offset when it occurs twice or (a reading the
\* daylight-saving change skips) not at all.
localize(zone, wall) ==
    LET possible == PossibleOffsets(zone, wall)
    IN  [aware |-> TRUE,
         wall  |-> wall,
         off   |-> IF Cardinality(possible) = 1
                   THEN CHOOSE o \in possible : TRUE
                   ELSE StandardOffset(zone)]

\* The instant an aware datetime names, in minutes UTC.
Instant(dt) == dt.wall - dt.off

\* dt.astimezone(tz): the same instant, read on the wall clock of `zone`.
astimezone(dt, zone) ==
    LET o == utcoffset(zone, Instant(dt))
    IN  [aware |-> TRUE, wall |-> Instant(dt) + o, off |-> o]

\* datetime.isoformat(): the wall-clock reading followed by the offset.
isoformat(dt) == [wall |-> dt.wall, off |-> dt.off]

(* -------------------------- availability ------------------------------ *)

OpenHour == 9

CloseHour == 17

\* is_available_slot with the closing test written `hour > 17`.
is_available_slot_late_close(dt, timezone) ==
    LET local_dt == astimezone(dt, timezone)
    IN  IF weekday(local_dt.wall) >= 5
        THEN [ok |-> FALSE, msg |-> "Not available on weekend day"]
        ELSE IF hour(local_dt.wall) < OpenHour \/ hour(local_dt.wall) > CloseHour
        THEN [ok |-> FALSE, msg |-> "Outside business hours"]
        ELSE [ok |-> TRUE, msg |-> "Available"]

\* is_available_slot(dt, timezone) for a zone name the database knows
\* (pytz.timezone raises on any other: see CheckAvailability).
is_available_slot(dt, timezone) ==
    LET local_dt == astimezone(dt, timezone)
    IN  IF weekday(local_dt.wall) >= 5
        THEN [ok |-> FALSE, msg |-> "Not available on weekend day"]
        ELSE IF hour(local_dt.wall) < OpenHour \/ hour(local_dt.wall) >= CloseHour
        THEN [ok |-> FALSE, msg |-> "Outside business hours"]
        ELSE [ok |-> TRUE, msg |-> "Available"]

(* ------------------------------ requests ------------------------------ *)

\* Python's None, as a field value.
None == "<None>"

\* `not v` for a field value: None and "" are falsy.
Falsy(v) == v \in {None, ""}

\* A time text is modelled by what dateutil reads in it: nothing (kinds
\* "None", "empty" and "words"), a wall-clock reading ("naive"), or a reading
\* with an explicit offset ("aware").
NoTime == [kind |-> "None", wall |-> 0, off |-> 0]

EmptyTime == [kind |-> "empty", wall |-> 0, off |-> 0]

WordsTime == [kind |-> "words", wall |-> 0, off |-> 0]

\* `not time_str`
FalsyTime(t) == t.kind \in {"None", "empty"}

\* Times of day named in requests: 00:00, 02:30, 08:59, 09:00, 10:00, 16:59,
\* 17:00 and 23:30.
ClockTimes == {0, 150, 539, 540, 600, 1019, 1020, 1410}

WallClocks == {d * MinutesPerDay + t : d \in 0..MaxDay, t \in ClockTimes}

\* Offsets written in time texts: Z, +02:00 and -05:00.
TextOffsets == {0, 120, -300}

TimeTexts ==
    {NoTime, EmptyTime, WordsTime}
    \cup {[kind |-> "naive", wall |-> w, off |-> 0] : w \in WallClocks}
    \cup {[kind |-> "aware", wall |-> w, off |-> o] : w \in WallClocks, o \in TextOffsets}

\* What request.get_json() meets: a JSON object, the JSON value null, or a
\* body that is no JSON.
NoObject(k) ==
    [kind |-> k, name |-> None, email |-> None, time |-> NoTime, timezone |-> None]

Requests ==
    [kind : {"object"}, name : {None, "", "Ann"}, email : {None, "", "ann@example.org"},
     time : TimeTexts, timezone : {None, UnknownZone} \cup all_timezones]
    \cup {NoObject("null"), NoObject("malformed")}

\* dateutil's parse(time_str, fuzzy=True): a datetime, or a ParserError.
NoDate == [aware |-> FALSE, wall |-> 0, off |-> 0]

date_parse(t) ==
    IF t.kind \in {"naive", "aware"}
    THEN [ok |-> TRUE, dt |-> [aware |-> t.kind = "aware", wall |-> t.wall, off |-> t.off]]
    ELSE [ok |-> FALSE, dt |-> NoDate]

(* --------------------------- the booking API --------------------------- *)

HTTP_OK == 200

HTTP_CREATED == 201

HTTP_BAD_REQUEST == 400

HTTP_SERVER_ERROR == 500

NoBody == [json |-> "none", status |-> None, data |-> None]

\* The bodies the booking API may answer with: no JSON, a JSON array, or a
\* JSON object with a status field and a data field (an object or null).
UpstreamBodies ==
    {[json |-> "nonjson", status |-> None, data |-> None],
     [json |-> "array", status |-> None, data |-> None]}
    \cup [json : {"object"}, status : {"success", "error"}, data : {"object", "null"}]

NoReply == [status_code |-> 0, body |-> NoBody]

UpstreamReplies == [status_code : {HTTP_OK, HTTP_CREATED, HTTP_SERVER_ERROR}, body : UpstreamBodies]

NoPayload ==
    [start |-> [wall |-> 0, off |-> 0], eventTypeId |-> 0,
     attendee |-> [name |-> None, email |-> None, timeZone |-> None]]

\* int(CAL_EVENT_TYPE_ID) for the configured text.
int(s) == CASE s = "123" -> 123

(* ------------------------------- state --------------------------------- *)

VARIABLES
    variant,            \* which service runs: "app" (src/app.py) or "main" (src/main.py)
    CAL_EVENT_TYPE_ID,  \* os.getenv("CAL_EVENT_TYPE_ID"): None when unset
    pc,                 \* the handler's position
    request,            \* the body of the request being handled
    name, email, time_str, user_timezone,   \* the handler's locals
    tz,                 \* main.py: the validated zone
    parsed_date,        \* the normalized datetime
    avail,              \* (is_avail, avail_msg)
    payload,            \* the outbound payload
    outbound,           \* the payloads that reached the booking API in this request
    res,                \* the booking API's reply
    responses,          \* the responses sent for this request
    fault               \* the exception the catch-all caught in this request, or None

vars ==
    <<variant, CAL_EVENT_TYPE_ID, pc, request, name, email, time_str, user_timezone,
      tz, parsed_date, avail, payload, outbound, res, responses, fault>>

config == <<variant, CAL_EVENT_TYPE_ID>>

NoVerdict == [ok |-> FALSE, msg |-> ""]

Init ==
    /\ variant \in {"app", "main"}
    /\ CAL_EVENT_TYPE_ID \in {None, "123"}
    /\ pc = "idle"
    /\ request = NoObject("null")
    /\ name = None /\ email = None /\ time_str = NoTime /\ user_timezone = None
    /\ tz = None
    /\ parsed_date = NoDate
    /\ avail = NoVerdict
    /\ payload = NoPayload
    /\ outbound = <<>>
    /\ res = NoReply
    /\ responses = <<>>
    /\ fault = None

(* ------------------------------ responses ------------------------------ *)

ErrorResponse(code, kind, details, body) ==
    [status |-> code, error |-> kind, details |-> details, booking |-> body]

MissingFields == ErrorResponse(HTTP_BAD_REQUEST, "MissingFields", "", NoBody)

InvalidTimezone == ErrorResponse(HTTP_BAD_REQUEST, "InvalidTimezone", "", NoBody)

UnparsableTime(details) == ErrorResponse(HTTP_BAD_REQUEST, "UnparsableTime", details, NoBody)

SlotUnavailable(reason) == ErrorResponse(HTTP_BAD_REQUEST, "SlotUnavailable", reason, NoBody)

UpstreamBookingFailure(body) ==
    ErrorResponse(HTTP_SERVER_ERROR, "UpstreamBookingFailure", "", body)

Success(body) == ErrorResponse(HTTP_OK, "none", "", body)

\* The catch-all letting the exception through unanswered.
InternalError_reraised(e) == ErrorResponse(0, "unhandled", e, NoBody)

\* except Exception as e: the catch-all around the whole handler.
InternalError(e) == ErrorResponse(HTTP_SERVER_ERROR, "InternalError", e, NoBody)

\* return jsonify(...), status
Respond(r) ==
    /\ responses' = Append(responses, r)
    /\ pc' = "done"

\* An exception raised outside the inner try blocks reaches the catch-all.
Raise(e) ==
    /\ fault' = e
    /\ Respond(InternalError(e))

(* ------------------------------ the handler ---------------------------- *)

\* data.get("timezone", <default>): the default differs between the services.
DefaultTimezone == IF variant = "main" THEN "Europe/Amsterdam" ELSE "UTC"

\* A request arrives and the handler is entered.
Receive ==
    /\ pc = "idle"
    /\ \E r \in Requests : request' = r
    /\ pc' = "read"
    /\ UNCHANGED <<config, name, email, time_str, user_timezone, tz, parsed_date,
                   avail, payload, outbound, res, responses, fault>>

\* The handler has returned: its locals are gone and the server waits for the
\* next request.
Return ==
    /\ pc = "done"
    /\ pc' = "idle"
    /\ request' = NoObject("null")
    /\ name' = None /\ email' = None /\ time_str' = NoTime /\ user_timezone' = None
    /\ tz' = None
    /\ parsed_date' = NoDate
    /\ avail' = NoVerdict
    /\ payload' = NoPayload
    /\ outbound' = <<>>
    /\ res' = NoReply
    /\ responses' = <<>>
    /\ fault' = None
    /\ UNCHANGED config

\* data = request.get_json() and the data.get(...) lines: get_json raises on a
\* body that is no JSON, and data.get raises when the body is the JSON null.
ReadFields ==
    /\ pc = "read"
    /\ IF request.kind = "malformed"
       THEN /\ Raise("BadRequest")
            /\ UNCHANGED <<name, email, time_str, user_timezone>>
       ELSE IF request.kind = "null"
       THEN /\ Raise("AttributeError")
            /\ UNCHANGED <<name, email, time_str, user_timezone>>
       ELSE /\ name' = request.name
            /\ email' = request.email
            /\ time_str' = request.time
            /\ user_timezone' =
                   IF request.timezone = None THEN DefaultTimezone ELSE request.timezone
            /\ pc' = "check"
            /\ UNCHANGED <<responses, fault>>
    /\ UNCHANGED <<config, request, tz, parsed_date, avail, payload, outbound, res>>

\* if not name or not email or not time_str: return 400
CheckFields ==
    /\ pc = "check"
    /\ IF Falsy(name) \/ Falsy(email) \/ FalsyTime(time_str)
       THEN Respond(MissingFields)
       ELSE /\ pc' = IF variant = "main" THEN "timezone" ELSE "parse"
            /\ UNCHANGED responses
    /\ UNCHANGED <<config, request, name, email, time_str, user_timezone, tz,
                   parsed_date, avail, payload, outbound, res, fault>>

\* main.py: tz = pytz.timezone(user_timezone), UnknownTimeZoneError answered 400.
ValidateTimezone ==
    /\ pc = "timezone"
    /\ variant = "main"
    /\ IF user_timezone \in all_timezones
       THEN /\ tz' = user_timezone
            /\ pc' = "parse"
            /\ UNCHANGED responses
       ELSE /\ Respond(InvalidTimezone)
            /\ UNCHANGED tz
    /\ UNCHANGED <<config, request, name, email, time_str, user_timezone,
                   parsed_date, avail, payload, outbound, res, fault>>

\* main.py's normalization localizing a naive datetime in UTC, as app.py does.
normalize_main_as_utc(dt, zone) ==
    IF ~dt.aware THEN localize("UTC", dt.wall) ELSE astimezone(dt, zone)

\* main.py: a naive datetime is localized in the user's zone, an aware one is
\* converted to it.
normalize_main(dt, zone) ==
    IF ~dt.aware THEN localize(zone, dt.wall) ELSE astimezone(dt, zone)

\* app.py: a naive datetime is localized in UTC, an aware one is kept.
normalize_app(dt) ==
    IF ~dt.aware THEN localize("UTC", dt.wall) ELSE dt

\* A parser that reads a date in words that hold none.
parse_result_lenient(t) ==
    IF t.kind = "words"
    THEN [ok |-> TRUE, dt |-> NoDate]
    ELSE date_parse(t)

\* parsed_date = date_parse(time_str, fuzzy=True)
parse_result(t) == date_parse(t)

\* main.py: parse and normalize inside one try; any exception is answered 400.
ParseMain ==
    /\ pc = "parse"
    /\ variant = "main"
    /\ LET p == parse_result(time_str)
       IN  IF p.ok
           THEN /\ parsed_date' = normalize_main(p.dt, tz)
                /\ pc' = "available"
                /\ UNCHANGED responses
           ELSE /\ Respond(UnparsableTime("ParserError"))
                /\ UNCHANGED parsed_date
    /\ UNCHANGED <<config, request, name, email, time_str, user_timezone, tz,
                   avail, payload, outbound, res, fault>>

\* app.py: parse inside a try answered 400, then ensure timezone awareness.
ParseApp ==
    /\ pc = "parse"
    /\ variant = "app"
    /\ LET p == parse_result(time_str)
       IN  IF p.ok
           THEN /\ parsed_date' = normalize_app(p.dt)
                /\ pc' = "available"
                /\ UNCHANGED responses
           ELSE /\ Respond(UnparsableTime(""))
                /\ UNCHANGED parsed_date
    /\ UNCHANGED <<config, request, name, email, time_str, user_timezone, tz,
                   avail, payload, outbound, res, fault>>

\* The availability step without its early return.
CheckAvailability_books_anyway ==
    /\ pc = "available"
    /\ user_timezone \in all_timezones
    /\ avail' = is_available_slot(parsed_date, user_timezone)
    /\ pc' = "payload"
    /\ UNCHANGED <<config, request, name, email, time_str, user_timezone, tz,
                   parsed_date, payload, outbound, res, responses, fault>>

\* is_avail, avail_msg = is_available_slot(parsed_date, user_timezone); an
\* unavailable slot is answered 400. pytz.timezone inside is_available_slot
\* raises UnknownTimeZoneError for a name the database does not know.
CheckAvailability ==
    /\ pc = "available"
    /\ IF user_timezone \notin all_timezones
       THEN /\ Raise("UnknownTimeZoneError")
            /\ UNCHANGED avail
       ELSE /\ avail' = is_available_slot(parsed_date, user_timezone)
            /\ IF avail'.ok
               THEN /\ pc' = "payload"
                    /\ UNCHANGED responses
               ELSE Respond(SlotUnavailable(avail'.msg))
            /\ UNCHANGED fault
    /\ UNCHANGED <<config, request, name, email, time_str, user_timezone, tz,
                   parsed_date, payload, outbound, res>>

\* main.py: iso_date = parsed_date.astimezone(pytz.UTC).isoformat()
iso_date_main(dt) == isoformat(astimezone(dt, "UTC"))

\* app.py: iso_date = parsed_date.isoformat()
iso_date_app(dt) == isoformat(dt)

\* The payload dict; int(None) raises TypeError when the event type is unset.
BuildPayload ==
    /\ pc = "payload"
    /\ IF CAL_EVENT_TYPE_ID = None
       THEN /\ Raise("TypeError")
            /\ UNCHANGED payload
       ELSE /\ payload' =
                   [start |-> IF variant = "main"
                              THEN iso_date_main(parsed_date)
                              ELSE iso_date_app(parsed_date),
                    eventTypeId |-> int(CAL_EVENT_TYPE_ID),
                    attendee |-> [name |-> name, email |-> email,
                                  timeZone |-> user_timezone]]
            /\ pc' = "post"
            /\ UNCHANGED <<responses, fault>>
    /\ UNCHANGED <<config, request, name, email, time_str, user_timezone, tz,
                   parsed_date, avail, outbound, res>>

\* res = requests.post(...): the call returns the API's reply, or raises (a
\* connection error before the payload arrives, a read timeout after).
PostBooking ==
    /\ pc = "post"
    /\ \E raised \in BOOLEAN, delivered \in BOOLEAN, reply \in UpstreamReplies :
          /\ raised \/ delivered
          /\ raised => reply = CHOOSE r \in UpstreamReplies : TRUE
          /\ outbound' = IF delivered THEN Append(outbound, payload) ELSE outbound
          /\ IF raised
             THEN /\ Raise("RequestException")
                  /\ UNCHANGED res
             ELSE /\ res' = reply
                  /\ pc' = "result"
                  /\ UNCHANGED <<responses, fault>>
    /\ UNCHANGED <<config, request, name, email, time_str, user_timezone, tz,
                   parsed_date, avail, payload>>

\* main.py: success needs HTTP 201 and status "success".
upstream_ok_main(status_code, body) ==
    ~(status_code # HTTP_CREATED \/ body.status # "success")

\* app.py: status "success" is success; so is any reply with HTTP 200.
upstream_ok_app(status_code, body) ==
    IF body.status = "success" THEN TRUE ELSE ~(status_code # HTTP_OK)

\* main.py: booking_data = res.json() and the mapping of the reply.
MapResultMain ==
    /\ pc = "result"
    /\ variant = "main"
    /\ IF res.body.json = "nonjson"
       THEN Raise("JSONDecodeError")
       ELSE IF res.body.json = "array"
       THEN Raise("AttributeError")
       ELSE /\ IF upstream_ok_main(res.status_code, res.body)
               THEN Respond(Success(res.body))
               ELSE Respond(UpstreamBookingFailure(res.body))
            /\ UNCHANGED fault
    /\ UNCHANGED <<config, request, name, email, time_str, user_timezone, tz,
                   parsed_date, avail, payload, outbound, res>>

\* app.py: booking_data = res.json() and the mapping of the reply; the
\* success branch reads data.get(...), which raises when data is null.
MapResultApp ==
    /\ pc = "result"
    /\ variant = "app"
    /\ IF res.body.json = "nonjson"
       THEN Raise("JSONDecodeError")
       ELSE IF res.body.json = "array"
       THEN Raise("AttributeError")
       ELSE IF res.body.status = "success" /\ res.body.data = "null"
       THEN Raise("AttributeError")
       ELSE /\ IF upstream_ok_app(res.status_code, res.body)
               THEN Respond(Success(res.body))
               ELSE Respond(UpstreamBookingFailure(res.body))
            /\ UNCHANGED fault
    /\ UNCHANGED <<config, request, name, email, time_str, user_timezone, tz,
                   parsed_date, avail, payload, outbound, res>>

Next ==
    \/ Receive
    \/ ReadFields
    \/ CheckFields
    \/ ValidateTimezone
    \/ ParseMain
    \/ ParseApp
    \/ CheckAvailability
    \/ BuildPayload
    \/ PostBooking
    \/ MapResultMain
    \/ MapResultApp
    \/ Return

Spec == Init /\ [][Next]_vars

(* ---------------------------- the properties --------------------------- *)

\* The request at hand, read from its body alone.
BodyMissing == 
    \/ request.kind # "object"
    \/ Falsy(request.name) \/ Falsy(request.email) \/ FalsyTime(request.time)

DeclaredZone == IF request.timezone = None THEN DefaultTimezone ELSE request.timezone

Answered == pc = "done" /\ Len(responses) = 1

Answer == responses[1]

\* is_available_slot has returned a verdict in this request.
VerdictGiven == avail.msg # ""

\* The normalized datetime has been computed in this request.
Normalized == parsed_date.aware

\* Monday 00:00 of the week of minute 0 is minute 0: a wall-clock minute lies
\* in the availability window when its day is one of the first five of its
\* week and its minute of the day is 09:00 ... 16:59.
InWindow(wall) ==
    /\ \E week \in -1..((MaxDay \div 7) + 1), day \in 0..4 :
          wall \div MinutesPerDay = 7 * week + day
    /\ \E m \in 540..1019 : wall % MinutesPerDay = m

LocalWall(utc, zone) == utc + utcoffset(zone, utc)

\* C1: whenever is_available_slot has answered for an instant and a known
\* zone, it answered available exactly when the instant's local wall-clock
\* time there is Monday-Friday, 09:00 up to and excluding 17:00.
C1_AvailableIffInWindow ==
    VerdictGiven =>
        (avail.ok <=> InWindow(LocalWall(Instant(parsed_date), user_timezone)))

\* C1's case: a Friday 16:59 local in New York is available.
C1_Witness ==
    /\ VerdictGiven
    /\ user_timezone = "America/New_York"
    /\ LocalWall(Instant(parsed_date), user_timezone) = 4 * MinutesPerDay + 1019
    /\ avail.ok

\* C2: once the booking API has replied with a JSON object, the handler
\* answers 200 only for HTTP 201 with status "success", and answers every
\* other reply 500 UpstreamBookingFailure carrying the upstream body.
C2_SuccessOnlyOn201Success ==
    (Answered /\ res # NoReply /\ res.body.json = "object") =>
        LET good == res.status_code = HTTP_CREATED /\ res.body.status = "success"
        IN  /\ Answer.status = HTTP_OK => good
            /\ ~good => Answer = UpstreamBookingFailure(res.body)

\* C3: a request with name, email and time present and an unknown timezone
\* name is answered 400 InvalidTimezone.
C3_UnknownTimezoneAnswered400 ==
    (Answered /\ ~BodyMissing /\ request.timezone = UnknownZone) =>
        Answer = InvalidTimezone

\* C4: a request missing any of name, email, time, a request without a usable
\* JSON body included, is answered 400 MissingFields.
C4_MissingFieldsAnswered400 ==
    (Answered /\ BodyMissing) => Answer = MissingFields

\* C5 as claimed: with name and email present and a known timezone, a time
\* string that cannot be parsed, the empty string included, is answered 400
\* UnparsableTime.
C5_UnparsableOrEmptyTime ==
    (/\ Answered
     /\ request.kind = "object" /\ ~Falsy(request.name) /\ ~Falsy(request.email)
     /\ DeclaredZone \in all_timezones
     /\ request.time.kind \in {"empty", "words"}) =>
        (Answer.status = HTTP_BAD_REQUEST /\ Answer.error = "UnparsableTime")

\* C5 as amended: with name and email present and a known timezone, a
\* non-empty time string that cannot be parsed is answered 400 UnparsableTime;
\* the empty string is answered 400 MissingFields.
C5_UnparsableNonEmptyTime ==
    (/\ Answered
     /\ request.kind = "object" /\ ~Falsy(request.name) /\ ~Falsy(request.email)
     /\ DeclaredZone \in all_timezones) =>
        /\ request.time.kind = "words" =>
              (Answer.status = HTTP_BAD_REQUEST /\ Answer.error = "UnparsableTime")
        /\ request.time.kind = "empty" => Answer = MissingFields

\* C5's case: a non-empty unparsable time was answered UnparsableTime.
C5_Witness ==
    /\ Answered
    /\ ~Falsy(request.name) /\ ~Falsy(request.email)
    /\ DeclaredZone \in all_timezones
    /\ request.time.kind = "words"
    /\ Answer.error = "UnparsableTime"

\* A naive wall-clock reading was read as local time of the declared zone: the
\* instant is the reading minus an offset of the zone, the offset in force
\* there at that instant when the reading occurs in the zone, and the zone's
\* standard-time offset when a daylight-saving change skips the reading.
ReadAsLocalTime ==
    \E o \in ZoneOffsets(user_timezone) :
        /\ Instant(parsed_date) = time_str.wall - o
        /\ IF PossibleOffsets(user_timezone, time_str.wall) # {}
           THEN utcoffset(user_timezone, Instant(parsed_date)) = o
           ELSE o = StandardOffset(user_timezone)

\* The availability verdict and the outbound start are those of the
\* normalized instant.
ComputedFromInstant ==
    /\ VerdictGiven =>
          (avail.ok <=> InWindow(LocalWall(Instant(parsed_date), user_timezone)))
    /\ payload # NoPayload =>
          payload.start.wall - payload.start.off = Instant(parsed_date)

\* C6 as claimed: a time parsed without timezone information is normalized
\* as local wall-clock time in the declared zone, in both services, and the
\* availability check and the outbound start are computed from that instant.
C6_NaiveIsLocalTime ==
    (Normalized /\ time_str.kind = "naive" /\ user_timezone \in all_timezones) =>
        (ReadAsLocalTime /\ ComputedFromInstant)

\* C6 as amended: /tools/schedule_meeting (main.py) normalizes a naive time as
\* local wall-clock time in the declared zone; /schedule (app.py) normalizes
\* it as UTC wall-clock time whatever the declared zone; in both, the
\* availability check and the outbound start are computed from that instant.
C6_NaiveIsLocalTimeInMainUtcInApp ==
    (Normalized /\ time_str.kind = "naive" /\ user_timezone \in all_timezones) =>
        /\ variant = "main" => ReadAsLocalTime
        /\ variant = "app" => Instant(parsed_date) = time_str.wall
        /\ ComputedFromInstant

\* C6's case: main.py sends "2025-03-10 10:00" in America/New_York as
\* 2025-03-10 14:00 UTC.
C6_Witness ==
    /\ variant = "main"
    /\ time_str = [kind |-> "naive", wall |-> 7 * MinutesPerDay + 600, off |-> 0]
    /\ user_timezone = "America/New_York"
    /\ Len(outbound) = 1
    /\ outbound[1].start = [wall |-> 7 * MinutesPerDay + 840, off |-> 0]

\* C7: every payload sent to the booking API has as start the normalized
\* instant with offset +00:00, and as attendee timeZone the declared timezone.
C7_StartIsUtc ==
    \A i \in 1..Len(outbound) :
        /\ outbound[i].start.off = 0
        /\ outbound[i].start.wall - outbound[i].start.off = Instant(parsed_date)
        /\ outbound[i].attendee.timeZone = DeclaredZone

\* C8: a request is answered at most once, an answered request exactly once
\* with status 200, 400 or 500, and a request in which a step faulted (the
\* event type unset, the outbound call raising, a reply that is no JSON) is
\* answered 500 InternalError with the exception's description.
C8_FaultsAnswered500 ==
    /\ Len(responses) <= 1
    /\ pc = "done" =>
          /\ Len(responses) = 1
          /\ Answer.status \in {HTTP_OK, HTTP_BAD_REQUEST, HTTP_SERVER_ERROR}
    /\ fault # None =>
          /\ Answered
          /\ Answer.status = HTTP_SERVER_ERROR
          /\ Answer.error = "InternalError"
          /\ Answer.details = fault
    /\ (pc = "done" /\ VerdictGiven /\ avail.ok /\ CAL_EVENT_TYPE_ID = None) =>
          fault = "TypeError"
    /\ (pc = "done" /\ payload # NoPayload /\ res = NoReply) =>
          fault = "RequestException"
    /\ (pc = "done" /\ res # NoReply /\ res.body.json = "nonjson") =>
          fault = "JSONDecodeError"

\* C8's case: the event type id is unset and the request got as far as the
\* payload; it was answered 500 InternalError.
C8_Witness ==
    /\ Answered
    /\ CAL_EVENT_TYPE_ID = None
    /\ avail.ok
    /\ fault = "TypeError"
    /\ Answer.status = HTTP_SERVER_ERROR

\* C9: the booking API is called only in a request whose name, email and time
\* are present, whose timezone is known, whose time parsed and whose verdict
\* is available; a request answered 400 has caused no outbound call.
C9_PostOnlyAfterValidation ==
    /\ (outbound # <<>> \/ res # NoReply \/ pc \in {"post", "result"}) =>
          /\ ~BodyMissing
          /\ DeclaredZone \in all_timezones
          /\ date_parse(request.time).ok
          /\ VerdictGiven /\ avail.ok
    /\ (Answered /\ Answer.status = HTTP_BAD_REQUEST) =>
          (outbound = <<>> /\ res = NoReply)

\* C9's case: a request passed the four validations and its payload reached
\* the booking API.
C9_Witness ==
    /\ Answered
    /\ Len(outbound) = 1
    /\ Answer.status = HTTP_OK

\* C10: a request with a JSON object body is answered with the error of its
\* earliest defect in the order missing fields, invalid timezone, unparsable
\* time, unavailable slot, and never with InternalError in place of one.
C10_EarliestDefectWins ==
    (Answered /\ request.kind = "object") =>
        LET badzone == DeclaredZone \notin all_timezones
            noparse == ~date_parse(request.time).ok
        IN  /\ BodyMissing => Answer = MissingFields
            /\ (~BodyMissing /\ badzone) => Answer = InvalidTimezone
            /\ (~BodyMissing /\ ~badzone /\ noparse) => Answer.error = "UnparsableTime"
            /\ (~BodyMissing /\ ~badzone /\ ~noparse /\ VerdictGiven /\ ~avail.ok) =>
                  Answer.error = "SlotUnavailable"
            /\ (BodyMissing \/ badzone \/ noparse) => Answer.error # "InternalError"

====
